---- MODULE Spec2Model ----
(***************************************************************************)
(* Model of ReactDOMUnknownPropertyHook.js: the development-mode check of  *)
(* the props of a host element against the DOM property registry, React's  *)
(* reserved props and the event plugin registry.                           *)
(*                                                                         *)
(* JavaScript strings are sequences of one-character strings, so that      *)
(* toLowerCase, indexOf('-'), the /^on[A-Z]/ test and the formatting of    *)
(* the grouped message are computed, not assumed.                          *)
(***************************************************************************)
EXTENDS Naturals, Sequences, FiniteSets

VARIABLES
  DEV,                        \* __DEV__
  properties,                 \* DOMProperty.properties (its own keys)
  getPossibleStandardName,    \* DOMProperty.getPossibleStandardName
  registrationNameModules,    \* EventPluginRegistry.registrationNameModules (keys)
  possibleRegistrationNames,  \* EventPluginRegistry.possibleRegistrationNames
  plugins,                    \* EventPluginRegistry.plugins
  warnedProperties,           \* module-scope cache, name -> true
  pc,                         \* "idle": no call in progress; "returned": a call just ended
  element,                    \* the arguments of the call that just ended
  warnedAtEntry,              \* warnedProperties as it was when that call began
  unknownProps,               \* warnUnknownProperties' local list at its end
  diagnostics,                \* the warning() calls of that call, in order
  raised,                     \* that call ended with a TypeError thrown to its caller
  domPropertyWarnings,        \* name -> how many 'Unknown DOM property' warnings so far (if any)
  everUnknown                 \* the names pushed to unknownProps by the calls before this one

vars == <<DEV, properties, getPossibleStandardName, registrationNameModules,
          possibleRegistrationNames, plugins, warnedProperties, pc, element,
          warnedAtEntry, unknownProps, diagnostics, raised, domPropertyWarnings,
          everUnknown>>

registries == <<DEV, properties, getPossibleStandardName, registrationNameModules,
                possibleRegistrationNames, plugins>>

---------------------------------------------------------------------------
(* Strings *)

UpperChars == <<"A","B","C","D","E","F","G","H","I","J","K","L","M",
                "N","O","P","Q","R","S","T","U","V","W","X","Y","Z">>
LowerChars == <<"a","b","c","d","e","f","g","h","i","j","k","l","m",
                "n","o","p","q","r","s","t","u","v","w","x","y","z">>

UpperSet == {UpperChars[i] : i \in 1..Len(UpperChars)}

IsUpperChar(c) == c \in UpperSet

\* the lower-case letter of each upper-case letter
LowerOf ==
  [c \in UpperSet |-> LowerChars[CHOOSE i \in 1..Len(UpperChars) : UpperChars[i] = c]]

toLowerCaseChar(c) == IF IsUpperChar(c) THEN LowerOf[c] ELSE c

RECURSIVE toLowerCase(_)
toLowerCase(s) ==
  IF s = <<>> THEN <<>>
  ELSE <<toLowerCaseChar(Head(s))>> \o toLowerCase(Tail(s))

\* type.indexOf('-') >= 0
hasHyphen(type) == \E i \in 1..Len(type) : type[i] = "-"

\* /^on[A-Z]/.test(name)
EVENT_NAME_REGEX(name) ==
  /\ Len(name) >= 3
  /\ name[1] = "o"
  /\ name[2] = "n"
  /\ IsUpperChar(name[3])

\* DOMProperty.isCustomAttribute: the data- prefix of the HTML property config
isCustomAttribute(name) ==
  /\ Len(name) >= 5
  /\ SubSeq(name, 1, 5) = <<"d","a","t","a","-">>

---------------------------------------------------------------------------
(* Names *)

reactProps ==
  { <<"c","h","i","l","d","r","e","n">>,
    <<"d","a","n","g","e","r","o","u","s","l","y","S","e","t",
      "I","n","n","e","r","H","T","M","L">>,
    <<"k","e","y">>,
    <<"r","e","f">>,
    <<"a","u","t","o","F","o","c","u","s">>,
    <<"d","e","f","a","u","l","t","V","a","l","u","e">>,
    <<"d","e","f","a","u","l","t","C","h","e","c","k","e","d">>,
    <<"i","n","n","e","r","H","T","M","L">>,
    <<"s","u","p","p","r","e","s","s","C","o","n","t","e","n","t",
      "E","d","i","t","a","b","l","e","W","a","r","n","i","n","g">>,
    <<"o","n","F","o","c","u","s","I","n">>,
    <<"o","n","F","o","c","u","s","O","u","t">> }

N_is     == <<"i","s">>
N_key    == <<"k","e","y">>
N_data_x == <<"d","a","t","a","-","x">>
N_Data_x == <<"D","a","t","a","-","x">>
N_onUp   == <<"o","n","U","p">>
N_onUP   == <<"o","n","U","P">>
N_onup   == <<"o","n","u","p">>
N_foo    == <<"f","o","o">>
N_bar    == <<"b","a","r">>

\* the prop names elements are rendered with: attribute names, none of them a
\* member of Object.prototype (a prop called hasOwnProperty would, once cached,
\* shadow the method that line 64 calls on warnedProperties)
Names == {N_is, N_key, N_data_x, N_Data_x, N_onUp, N_onUP, N_foo, N_bar}

T_div == <<"d","i","v">>
T_x_a == <<"x","-","a">>
Tags  == {T_div, T_x_a}

\* prop values: null, a number (or any other non-object), an object
Values == {"null", "number", "object"}

typeofObject(v) == v \in {"null", "object"}   \* typeof v === 'object'
truthy(v)       == v # "null"

MaxProps == 2

RECURSIVE keysOf(_)
keysOf(props) ==
  IF props = <<>> THEN <<>> ELSE <<Head(props).key>> \o keysOf(Tail(props))

distinctKeys(props) ==
  \A i, j \in 1..Len(props) : i # j => props[i].key # props[j].key

Prop == [key : Names, value : Values]

\* property bags in for-in order; an object has each key once
PropBags ==
  UNION { {p \in [1..n -> Prop] : distinctKeys(p)} : n \in 0..MaxProps }

---------------------------------------------------------------------------
(* validateProperty *)

NoWarnings == <<>>
null == <<>>              \* a looked-up name is <<>> (null) or <<name>>

\* DOMProperty.properties.hasOwnProperty(name) || DOMProperty.isCustomAttribute(name)
isKnownOrCustom(name) ==
  name \in properties \/ isCustomAttribute(name)

\* variant: the cache is never consulted
isReservedOrWarned_reservedOnly(name, warned) == name \in reactProps

\* (reactProps.hasOwnProperty(name) && reactProps[name]) ||
\* (warnedProperties.hasOwnProperty(name) && warnedProperties[name])
isReservedOrWarned(name, warned) ==
  \/ name \in reactProps
  \/ (name \in DOMAIN warned /\ warned[name])

\* EventPluginRegistry.registrationNameModules.hasOwnProperty(name)
isRegistrationName(name) == name \in registrationNameModules

\* variant: the plugin count is tested the wrong way round
isEventNameWithoutPlugins_inverted(name) ==
  Len(plugins) # 0 /\ EVENT_NAME_REGEX(name)

\* EventPluginRegistry.plugins.length === 0 && EVENT_NAME_REGEX.test(name)
isEventNameWithoutPlugins(name) ==
  Len(plugins) = 0 /\ EVENT_NAME_REGEX(name)

\* variant: the name is never recorded
markWarned_forgets(warned, name) == warned

\* variant: the cache is keyed by the lower-cased name
markWarned_lowerCased(warned, name) ==
  [n \in (DOMAIN warned) \cup {toLowerCase(name)} |->
     IF n = toLowerCase(name) THEN TRUE ELSE warned[n]]

\* warnedProperties[name] = true
markWarned(warned, name) ==
  [n \in (DOMAIN warned) \cup {name} |-> IF n = name THEN TRUE ELSE warned[n]]

standardName(lowerCasedName) ==
  IF isCustomAttribute(lowerCasedName)
    THEN <<lowerCasedName>>
    ELSE IF lowerCasedName \in DOMAIN getPossibleStandardName
      THEN <<getPossibleStandardName[lowerCasedName]>>
      ELSE null

registrationName(lowerCasedName) ==
  IF lowerCasedName \in DOMAIN possibleRegistrationNames
    THEN <<possibleRegistrationNames[lowerCasedName]>>
    ELSE null

\* warning(false, format, ...args); the stack addendum is an opaque string
warning(format, args) == [format |-> format, args |-> args]

\* variant: an event-handler suggestion still returns false
suggest_eventStillUnknown(name, standard, registration) ==
  IF standard # null
    THEN [isValid |-> TRUE,
          warnings |-> <<warning("Unknown DOM property", <<name, standard[1]>>)>>]
    ELSE IF registration # null
      THEN [isValid |-> FALSE,
            warnings |-> <<warning("Unknown event handler property",
                                   <<name, registration[1]>>)>>]
      ELSE [isValid |-> FALSE, warnings |-> NoWarnings]

\* variant: the event-handler suggestion is tried first
suggest_eventFirst(name, standard, registration) ==
  IF registration # null
    THEN [isValid |-> TRUE,
          warnings |-> <<warning("Unknown event handler property",
                                 <<name, registration[1]>>)>>]
    ELSE IF standard # null
      THEN [isValid |-> TRUE,
            warnings |-> <<warning("Unknown DOM property", <<name, standard[1]>>)>>]
      ELSE [isValid |-> FALSE, warnings |-> NoWarnings]

\* the branch taken once the name has been marked: lines 95-119
suggest(name, standard, registration) ==
  IF standard # null
    THEN [isValid |-> TRUE,
          warnings |-> <<warning("Unknown DOM property", <<name, standard[1]>>)>>]
    ELSE IF registration # null
      THEN [isValid |-> TRUE,
            warnings |-> <<warning("Unknown event handler property",
                                   <<name, registration[1]>>)>>]
      ELSE [isValid |-> FALSE, warnings |-> NoWarnings]

\* the result of validateProperty(tagName, name, debugID) with the cache `warned`:
\* its return value, the cache afterwards and the warnings it printed
validateProperty(tagName, name, warned) ==
  IF isKnownOrCustom(name)
    THEN [isValid |-> TRUE, warned |-> warned, warnings |-> NoWarnings]
  ELSE IF isReservedOrWarned(name, warned)
    THEN [isValid |-> TRUE, warned |-> warned, warnings |-> NoWarnings]
  ELSE IF isRegistrationName(name)
    THEN [isValid |-> TRUE, warned |-> warned, warnings |-> NoWarnings]
  ELSE IF isEventNameWithoutPlugins(name)
    THEN [isValid |-> TRUE, warned |-> warned, warnings |-> NoWarnings]
  ELSE
    LET lowerCasedName == toLowerCase(name)
        s == suggest(name, standardName(lowerCasedName),
                     registrationName(lowerCasedName))
    IN  [isValid |-> s.isValid, warned |-> markWarned(warned, name),
         warnings |-> s.warnings]

---------------------------------------------------------------------------
(* warnUnknownProperties *)

\* variant: null is not excluded
isObjectValue_nullToo(value) == typeofObject(value)

\* typeof value === 'object' && value !== null
isObjectValue(value) == typeofObject(value) /\ value # "null"

objectWarning(key, type, value) ==
  IF isObjectValue(value)
    THEN <<warning("prop is not a known property, and was given an object",
                   <<key, type>>)>>
    ELSE NoWarnings

\* the for-in loop of lines 125-142 over the rest of the props
RECURSIVE forIn(_, _, _)
forIn(type, props, acc) ==
  IF props = <<>> THEN acc
  ELSE
    LET key == Head(props).key
        r   == validateProperty(type, key, acc.warned)
        next ==
          IF r.isValid
            THEN [warned |-> r.warned,
                  unknownProps |-> acc.unknownProps,
                  warnings |-> acc.warnings \o r.warnings]
            ELSE [warned |-> r.warned,
                  unknownProps |-> Append(acc.unknownProps, key),
                  warnings |-> acc.warnings \o r.warnings
                                 \o objectWarning(key, type, Head(props).value)]
    IN  forIn(type, Tail(props), next)

\* the backquote character (the lexer of TLA+ has no such string)
backquote == "BACKQUOTE"

quote(prop) == <<backquote>> \o prop \o <<backquote>>

RECURSIVE joinQuoted(_)
\* unknownProps.map(prop => backquote + prop + backquote).join(', ')
joinQuoted(names) ==
  IF names = <<>> THEN <<>>
  ELSE IF Len(names) = 1 THEN quote(names[1])
  ELSE quote(names[1]) \o <<",", " ">> \o joinQuoted(Tail(names))

\* variant: the plural form needs more than two unknown props
groupedWarning_offByOne(unknown, type) ==
  IF Len(unknown) = 1
    THEN <<warning("Unknown prop on tag", <<joinQuoted(unknown), type>>)>>
    ELSE IF Len(unknown) > 2
      THEN <<warning("Unknown props on tag", <<joinQuoted(unknown), type>>)>>
      ELSE NoWarnings

\* lines 144-164
groupedWarning(unknown, type) ==
  IF Len(unknown) = 1
    THEN <<warning("Unknown prop on tag", <<joinQuoted(unknown), type>>)>>
    ELSE IF Len(unknown) > 1
      THEN <<warning("Unknown props on tag", <<joinQuoted(unknown), type>>)>>
      ELSE NoWarnings

\* warnUnknownProperties(type, props, debugID) in a development build
warnUnknownProperties(type, props, warned) ==
  LET r == forIn(type, props,
                 [warned |-> warned, unknownProps |-> <<>>, warnings |-> NoWarnings])
  IN  [warned |-> r.warned,
       unknownProps |-> r.unknownProps,
       warnings |-> r.warnings \o groupedWarning(r.unknownProps, type),
       raised |-> FALSE]

\* outside a development build validateProperty is undefined: calling it for
\* the first key throws a TypeError; with no keys the loop body never runs
warnUnknownPropertiesNoDev(type, props, warned) ==
  [warned |-> warned, unknownProps |-> <<>>, warnings |-> NoWarnings,
   raised |-> props # <<>>]

---------------------------------------------------------------------------
(* validateProperties and the hooks *)

\* props.is
propsIs(props) == \E i \in 1..Len(props) : props[i].key = N_is /\ truthy(props[i].value)

\* variant: props.is is not looked at
isCustomElement_hyphenOnly(type, props) == hasHyphen(type)

\* type.indexOf('-') >= 0 || props.is
isCustomElement(type, props) == hasHyphen(type) \/ propsIs(props)

skipped(warned) ==
  [warned |-> warned, unknownProps |-> <<>>, warnings |-> NoWarnings, raised |-> FALSE]

validateProperties(type, props, warned) ==
  IF isCustomElement(type, props) THEN skipped(warned)
  ELSE IF DEV THEN warnUnknownProperties(type, props, warned)
  ELSE warnUnknownPropertiesNoDev(type, props, warned)

\* __DEV__ && element != null && typeof element.type === 'string'
hookGuard(el) == DEV /\ ~el.isNull /\ el.typeIsString

hook(el, warned) ==
  IF hookGuard(el) THEN validateProperties(el.type, el.props, warned)
  ELSE skipped(warned)

---------------------------------------------------------------------------
(* The registries, as injected before the first render *)

\* property configs: the standard one, and one that also injects `onup`
DOMPropertyConfigs == { {N_is}, {N_is, N_onup} }

\* DOMProperty's injection records every property under its lower-cased name
possibleStandardNames(props) ==
  [l \in {toLowerCase(p) : p \in props} |->
     CHOOSE p \in props : toLowerCase(p) = l]

\* no event plugin (server rendering), or one plugin that registers onUp
EventPlugins == { <<>>, <<"UpEventPlugin">> }

registrationNamesOf(pl) == IF Len(pl) = 0 THEN {} ELSE {N_onUp}

NoElement == [isNull |-> TRUE, typeIsString |-> FALSE, type |-> <<>>, props |-> <<>>]

HostElements ==
  {[isNull |-> FALSE, typeIsString |-> TRUE, type |-> t, props |-> p] :
     t \in Tags, p \in PropBags}

\* a composite component: its type is a function, its props are never read here
CompositeElement ==
  [isNull |-> FALSE, typeIsString |-> FALSE, type |-> <<>>, props |-> <<>>]

HookElements == HostElements \cup {NoElement, CompositeElement}

EmptyCache == [n \in {} |-> TRUE]

Init ==
  /\ DEV \in BOOLEAN
  /\ properties \in DOMPropertyConfigs
  /\ getPossibleStandardName = possibleStandardNames(properties)
  /\ plugins \in EventPlugins
  /\ registrationNameModules = registrationNamesOf(plugins)
  /\ possibleRegistrationNames = possibleStandardNames(registrationNameModules)
  /\ warnedProperties = EmptyCache
  /\ pc = "idle"
  /\ element = NoElement
  /\ warnedAtEntry = EmptyCache
  /\ unknownProps = <<>>
  /\ diagnostics = NoWarnings
  /\ raised = FALSE
  /\ domPropertyWarnings = [n \in {} |-> 0]
  /\ everUnknown = {}

\* how many 'Unknown DOM property' warnings in `warnings` are about `name`
RECURSIVE countDOMProperty(_, _)
countDOMProperty(warnings, name) ==
  IF warnings = <<>> THEN 0
  ELSE (IF Head(warnings).format = "Unknown DOM property"
           /\ Head(warnings).args[1] = name THEN 1 ELSE 0)
       + countDOMProperty(Tail(warnings), name)

\* a call with arguments `el` ends with result `r`
Finish(el, r) ==
  /\ pc' = "returned"
  /\ element' = el
  /\ warnedAtEntry' = warnedProperties
  /\ warnedProperties' = r.warned
  /\ unknownProps' = r.unknownProps
  /\ diagnostics' = r.warnings
  /\ raised' = r.raised
  /\ domPropertyWarnings' =
       [n \in DOMAIN domPropertyWarnings
               \cup {x \in Names : countDOMProperty(r.warnings, x) > 0} |->
          (IF n \in DOMAIN domPropertyWarnings THEN domPropertyWarnings[n] ELSE 0)
          + countDOMProperty(r.warnings, n)]
  /\ UNCHANGED <<registries, everUnknown>>

\* the Fiber entry point, called with a host element's tag and props
ValidateProperties ==
  /\ pc = "idle"
  /\ \E el \in HostElements :
       Finish(el, validateProperties(el.type, el.props, warnedProperties))

OnBeforeMountComponent ==
  /\ pc = "idle"
  /\ \E el \in HookElements : Finish(el, hook(el, warnedProperties))

OnBeforeUpdateComponent ==
  /\ pc = "idle"
  /\ \E el \in HookElements : Finish(el, hook(el, warnedProperties))

\* the caller goes on; the call's arguments and locals are gone
Return ==
  /\ pc = "returned"
  /\ pc' = "idle"
  /\ element' = NoElement
  /\ warnedAtEntry' = EmptyCache
  /\ unknownProps' = <<>>
  /\ diagnostics' = NoWarnings
  /\ raised' = FALSE
  /\ everUnknown' = everUnknown \cup {unknownProps[i] : i \in 1..Len(unknownProps)}
  /\ UNCHANGED <<registries, warnedProperties, domPropertyWarnings>>

Next ==
  \/ ValidateProperties
  \/ OnBeforeMountComponent
  \/ OnBeforeUpdateComponent
  \/ Return

Spec == Init /\ [][Next]_vars

---------------------------------------------------------------------------
(* What a call was given and what it printed, read off the state after it *)

CallKeys == keysOf(element.props)
CallKeySet == {element.props[i].key : i \in 1..Len(element.props)}
ValueOf(n) == element.props[CHOOSE i \in 1..Len(element.props) : element.props[i].key = n].value

\* the call was made on a host element
OnHostElement == pc = "returned" /\ ~element.isNull /\ element.typeIsString

TagHasHyphen == \E i \in 1..Len(element.type) : element.type[i] = "-"
IsPropTruthy ==
  \E i \in 1..Len(element.props) :
    element.props[i].key = <<"i","s">> /\ element.props[i].value \in {"number", "object"}

\* a development-build call on a host element that is not a custom element
Classifying == OnHostElement /\ DEV /\ ~TagHasHyphen /\ ~IsPropTruthy

\* how many of the call's warnings have this format and this first argument
RECURSIVE CountIn(_, _, _)
CountIn(warnings, format, first) ==
  IF warnings = <<>> THEN 0
  ELSE (IF Head(warnings).format = format /\ Head(warnings).args[1] = first
          THEN 1 ELSE 0)
       + CountIn(Tail(warnings), format, first)

DOMPropertyCount(n)  == CountIn(diagnostics, "Unknown DOM property", n)
EventHandlerCount(n) == CountIn(diagnostics, "Unknown event handler property", n)
ObjectCount(n) ==
  CountIn(diagnostics, "prop is not a known property, and was given an object", n)

IsGrouped(w) == w.format \in {"Unknown prop on tag", "Unknown props on tag"}
Grouped == SelectSeq(diagnostics, IsGrouped)

\* the names between backquotes in a grouped message's list, in order
RECURSIVE Unquote(_, _, _)
Unquote(str, inside, current) ==
  IF str = <<>> THEN <<>>
  ELSE IF Head(str) = "BACKQUOTE"
    THEN IF inside THEN <<current>> \o Unquote(Tail(str), FALSE, <<>>)
         ELSE Unquote(Tail(str), TRUE, <<>>)
    ELSE IF inside THEN Unquote(Tail(str), TRUE, Append(current, Head(str)))
         ELSE Unquote(Tail(str), FALSE, current)

\* the names the call's grouped message lists (none without a grouped message)
Listed == IF Grouped = <<>> THEN <<>> ELSE Unquote(Grouped[1].args[1], FALSE, <<>>)
ListedSet == {Listed[i] : i \in 1..Len(Listed)}

\* no warning of the call is about the name
Unmentioned(n) ==
  /\ DOMPropertyCount(n) = 0
  /\ EventHandlerCount(n) = 0
  /\ ObjectCount(n) = 0
  /\ n \notin ListedSet

(* The classification of section 4.1, from the registries and the cache as it
   was when the call began *)
LowerCased == [n \in Names |-> toLowerCase(n)]
Lower(n) == LowerCased[n]
HeuristicEvent(n) ==
  Len(plugins) = 0 /\ Len(n) >= 3 /\ n[1] = "o" /\ n[2] = "n" /\ IsUpperChar(n[3])
ValidByRegistry(n) ==
  \/ n \in properties
  \/ isCustomAttribute(n)
  \/ n \in reactProps
  \/ n \in registrationNameModules
  \/ HeuristicEvent(n)
CachedAtEntry(n) == n \in DOMAIN warnedAtEntry
ReachesStep6(n) == ~ValidByRegistry(n) /\ ~CachedAtEntry(n)
HasAttributeSuggestion(n) ==
  isCustomAttribute(Lower(n)) \/ Lower(n) \in DOMAIN getPossibleStandardName
HasEventSuggestion(n) == Lower(n) \in DOMAIN possibleRegistrationNames
ClassifiedUnknown(n) ==
  ReachesStep6(n) /\ ~HasAttributeSuggestion(n) /\ ~HasEventSuggestion(n)

---------------------------------------------------------------------------
(* Claims *)

\* C1: a call on a host element whose tag name contains a hyphen, or whose
\* props have a truthy `is`, prints no warning, whatever the other props, the
\* cache and the registries are.
C1_CustomElementsSilent ==
  (OnHostElement /\ (TagHasHyphen \/ IsPropTruthy)) => diagnostics = <<>>

\* a <div is={...}> with an unknown object-valued prop was validated, in a
\* development build, with names already cached, and nothing was printed
C1_Witness ==
  /\ OnHostElement /\ DEV
  /\ ~TagHasHyphen /\ IsPropTruthy
  /\ <<"f","o","o">> \in CallKeySet /\ ValueOf(<<"f","o","o">>) = "object"
  /\ DOMAIN warnedAtEntry # {}
  /\ diagnostics = <<>>

C5_NoDevIsNoOp ==
  (pc = "returned" /\ ~DEV) =>
    /\ diagnostics = <<>>
    /\ warnedProperties = warnedAtEntry
    /\ ~raised

WarningsSoFar(n) ==
  IF n \in DOMAIN domPropertyWarnings THEN domPropertyWarnings[n] ELSE 0

\* the names C3 is about, as the claim states them
C3_Names ==
  {n \in Names : /\ n \notin properties
                 /\ ~isCustomAttribute(n)
                 /\ n \notin reactProps
                 /\ n \notin registrationNameModules
                 /\ Lower(n) \in DOMAIN getPossibleStandardName}

ExpectedUnknown == SelectSeq(CallKeys, ClassifiedUnknown)

\* C6: a call on a host element that is not a custom element prints at most
\* one grouped message, as its last warning: none with no unknown prop, the
\* singular form naming the prop with one, the plural form listing all of
\* them in for-in order with two or more.
C6_GroupedMessage ==
  Classifying =>
    /\ unknownProps = ExpectedUnknown
    /\ Len(Grouped) <= 1
    /\ Len(ExpectedUnknown) = 0 => Grouped = <<>>
    /\ Len(ExpectedUnknown) >= 1 =>
         /\ Len(Grouped) = 1
         /\ diagnostics[Len(diagnostics)] = Grouped[1]
         /\ Grouped[1].format =
              (IF Len(ExpectedUnknown) = 1 THEN "Unknown prop on tag"
                                           ELSE "Unknown props on tag")
         /\ Listed = ExpectedUnknown
         /\ Grouped[1].args[2] = element.type

\* <div bar foo> was validated and one plural message lists bar, then foo
C6_Witness ==
  /\ Classifying
  /\ CallKeys = << <<"b","a","r">>, <<"f","o","o">> >>
  /\ Len(diagnostics) = 1
  /\ diagnostics[1].format = "Unknown props on tag"
  /\ Listed = << <<"b","a","r">>, <<"f","o","o">> >>

\* C7: a prop for which a suggestion is printed gets that one warning only
\* and is not listed in the grouped message; with a fresh cache, an event
\* plugin registered and onup mapped to onUp only by the event registry,
\* validating <div foo={1} onUP={fn}> prints exactly the event-handler
\* suggestion for onUP and then the singular grouped message naming foo.
C7_Scenario ==
  /\ Classifying
  /\ DOMAIN warnedAtEntry = {}
  /\ Len(plugins) > 0
  /\ HasEventSuggestion(<<"o","n","U","P">>)
  /\ ~HasAttributeSuggestion(<<"o","n","U","P">>)
  /\ element.props = << [key |-> <<"f","o","o">>, value |-> "number"],
                        [key |-> <<"o","n","U","P">>, value |-> "number"] >>

C7_SuggestedNotListed ==
  /\ Classifying =>
       \A n \in CallKeySet :
         (DOMPropertyCount(n) + EventHandlerCount(n) > 0) =>
           /\ DOMPropertyCount(n) + EventHandlerCount(n) = 1
           /\ ObjectCount(n) = 0
           /\ n \notin ListedSet
  /\ C7_Scenario =>
       /\ Len(diagnostics) = 2
       /\ diagnostics[1] = [format |-> "Unknown event handler property",
                            args |-> << <<"o","n","U","P">>, <<"o","n","U","p">> >>]
       /\ diagnostics[2].format = "Unknown prop on tag"
       /\ Listed = << <<"f","o","o">> >>

C7_Witness == C7_Scenario /\ Len(diagnostics) = 2

\* C8: a name that reaches the suggestion step and has both an
\* attribute-name suggestion and an event-handler suggestion gets exactly one
\* warning, the 'Unknown DOM property' one; the event-handler warning is
\* printed only for a name with no attribute-name suggestion.
C8_AttributeSuggestionFirst ==
  Classifying =>
    \A n \in CallKeySet :
      /\ (ReachesStep6(n) /\ HasAttributeSuggestion(n) /\ HasEventSuggestion(n)) =>
           /\ DOMPropertyCount(n) = 1
           /\ EventHandlerCount(n) = 0
           /\ ObjectCount(n) = 0
           /\ n \notin ListedSet
      /\ EventHandlerCount(n) > 0 => ~HasAttributeSuggestion(n)

\* onUP was validated while onup is both an injected property and the
\* lower-cased form of the registered onUp: the property suggestion won
C8_Witness ==
  /\ Classifying
  /\ ReachesStep6(<<"o","n","U","P">>)
  /\ HasAttributeSuggestion(<<"o","n","U","P">>)
  /\ HasEventSuggestion(<<"o","n","U","P">>)
  /\ CallKeys = << <<"o","n","U","P">> >>
  /\ diagnostics = << [format |-> "Unknown DOM property",
                       args |-> << <<"o","n","U","P">>, <<"o","n","u","p">> >>] >>

\* C9: within one call the 'was given an object' warning is printed once for
\* each prop that the call classifies unknown and whose value is a non-null
\* object, for the element's tag and besides the grouped message, and for no
\* other prop.
C9_ObjectWarning ==
  Classifying =>
    \A n \in CallKeySet :
      IF ClassifiedUnknown(n) /\ ValueOf(n) = "object"
        THEN /\ ObjectCount(n) = 1
             /\ n \in ListedSet
             /\ \A i \in 1..Len(diagnostics) :
                  (diagnostics[i].format =
                     "prop is not a known property, and was given an object"
                   /\ diagnostics[i].args[1] = n)
                  => diagnostics[i].args[2] = element.type
        ELSE ObjectCount(n) = 0

\* <div foo={{}} bar={null}>: the object warning for foo, none for bar, and
\* the grouped message
C9_Witness ==
  /\ Classifying
  /\ element.props = << [key |-> <<"f","o","o">>, value |-> "object"],
                        [key |-> <<"b","a","r">>, value |-> "null"] >>
  /\ Len(diagnostics) = 2
  /\ ObjectCount(<<"f","o","o">>) = 1
  /\ ObjectCount(<<"b","a","r">>) = 0
  /\ Listed = << <<"f","o","o">>, <<"b","a","r">> >>

\* one step of the cache: entries stay as they are, and the new entries are the
\* classified names themselves that reached step 6, each with the value true
C10_Step ==
  /\ DOMAIN warnedProperties \subseteq DOMAIN warnedProperties'
  /\ \A n \in DOMAIN warnedProperties : warnedProperties'[n] = warnedProperties[n]
  /\ \A n \in (DOMAIN warnedProperties') \ (DOMAIN warnedProperties) :
       /\ warnedProperties'[n] = TRUE
       /\ pc = "idle" /\ Classifying'
       /\ n \in CallKeySet'
       /\ ~ValidByRegistry(n)
  /\ (pc = "idle" /\ Classifying') =>
       \A n \in CallKeySet' :
         (~ValidByRegistry(n) /\ n \notin DOMAIN warnedProperties)
           => n \in DOMAIN warnedProperties'

\* C10: the cache starts empty and only grows: no entry is ever removed or
\* changed, and a call adds exactly the names it classifies that are not a
\* known property, not custom-attribute-shaped, not reserved, not already
\* cached, not a registered event name and not covered by the no-plugins
\* on[A-Z] rule; everything else leaves the cache as it is.
C10_CacheGrows == (warnedProperties = <<>>) /\ [][C10_Step]_vars

\* a call added Data-x (and not data-x) to a cache that already held foo
C10_Witness ==
  /\ Classifying
  /\ DOMAIN warnedAtEntry = { <<"f","o","o">> }
  /\ DOMAIN warnedProperties = { <<"f","o","o">>, <<"D","a","t","a","-","x">> }

====
